---- MODULE Spec2Model ----
(***************************************************************************)
(* The DDIM and PLMS samplers of imaginairy/samplers (ddim.py, plms.py).   *)
(*                                                                         *)
(* A tensor is modelled by one of its elements (every tensor operation of  *)
(* the two files is elementwise).  An element is an exact rational         *)
(* <<n, d>> in lowest terms with d > 0; <<0, 0>> is the float NaN.  Float  *)
(* rounding is not modelled.  Python's None is the empty tuple.            *)
(*                                                                         *)
(* Spec is a sampler object taking a call of sample or decode and, after   *)
(* a sample call returned, the same call again (sample, or decode over the *)
(* whole schedule).  SpecFormula is the step formula called on its own.    *)
(*                                                                         *)
(* The calls are given temperature 1.0, noise_dropout 0.0 and              *)
(* quantize_denoised False (their defaults), a schedule built with eta 0,  *)
(* and a t_start >= 0.  The predictor, q_sample and the schedule helpers   *)
(* of imaginairy.modules.diffusion.util are outside the two files and are  *)
(* modelled from their documented behaviour.                               *)
(***************************************************************************)
EXTENDS Integers, Sequences, FiniteSets, TLC

\* Largest num_steps a call is given.
MaxSteps == 5

\* model.num_timesteps: chosen so that every uniform schedule of at most
\* MaxSteps steps indexes inside model.alphas_cumprod.
NumTimesteps == 2 * MaxSteps + 2

None == <<>>

---------------------------------------------------------------------------
(* Float arithmetic on one tensor element.                                 *)

NaN == <<0, 0>>

IsNaN(x) == x[2] = 0

Abs(n) == IF n < 0 THEN -n ELSE n

RECURSIVE Gcd(_, _)
Gcd(a, b) == IF b = 0 THEN a ELSE Gcd(b, a % b)

Norm(n, d) ==
    IF d = 0 THEN NaN
    ELSE LET g == Gcd(Abs(n), Abs(d))
             s == IF d < 0 THEN -1 ELSE 1
         IN  <<(s * n) \div g, (s * d) \div g>>

R(n) == <<n, 1>>

Q(n, d) == Norm(n, d)

RAdd(x, y) ==
    IF IsNaN(x) \/ IsNaN(y) THEN NaN
    ELSE Norm(x[1] * y[2] + y[1] * x[2], x[2] * y[2])

RNeg(x) == IF IsNaN(x) THEN NaN ELSE <<-x[1], x[2]>>

RSub(x, y) == RAdd(x, RNeg(y))

RMul(x, y) ==
    IF IsNaN(x) \/ IsNaN(y) THEN NaN
    ELSE Norm(x[1] * y[1], x[2] * y[2])

\* x / y.  Division by zero (an infinity, or NaN for 0/0) is outside the
\* inputs of the model (every alpha is positive); it is mapped to NaN.
RDiv(x, y) ==
    IF IsNaN(x) \/ IsNaN(y) \/ y[1] = 0 THEN NaN
    ELSE Norm(x[1] * y[2], x[2] * y[1])

RLess(x, y) == x[1] * y[2] < y[1] * x[2]

ISqrt(n) == CHOOSE r \in 0..n : r * r <= n /\ (r + 1) * (r + 1) > n

\* torch.Tensor.sqrt: NaN for a negative argument (no exception).  Exact on
\* the squares of rationals, the only non-negative arguments of the model.
RSqrt(x) ==
    IF IsNaN(x) \/ x[1] < 0 THEN NaN
    ELSE <<ISqrt(x[1]), ISqrt(x[2])>>

Sgn(x) == IF x[1] < 0 THEN -1 ELSE IF x[1] > 0 THEN 1 ELSE 0

---------------------------------------------------------------------------
(* The external collaborators.                                             *)

\* model.alphas_cumprod of model k, decreasing in the timestep: 1 at
\* timestep 0, then 144/169, 16/25, 9/25 and 25/169 over four stretches of
\* k timesteps (each value and its complement to 1 has a rational square
\* root, so every square root the samplers take of them is exact).
AlphasCumprod(k) ==
    [t \in 0..(NumTimesteps - 1) |->
        IF t = 0 THEN R(1)
        ELSE IF t < k THEN Q(144, 169)
        ELSE IF t < 2 * k THEN Q(16, 25)
        ELSE IF t < 3 * k THEN Q(9, 25)
        ELSE Q(25, 169)]

\* get_noise_prediction with a deterministic denoiser: predictor pm at
\* latent x and timestep t.  pm = 0 ignores the latent.
GetNoisePrediction(pm, x, t) ==
    IF IsNaN(x) THEN NaN ELSE R(t + pm * Sgn(x))

\* model.q_sample(x_start, t, noise):
\*   sqrt_alphas_cumprod[t] * x_start + sqrt_one_minus_alphas_cumprod[t] * noise
QSample(k, x_start, t, noise) ==
    RAdd(RMul(RSqrt(AlphasCumprod(k)[t]), x_start),
         RMul(RSqrt(RSub(R(1), AlphasCumprod(k)[t])), noise))

\* make_ddim_timesteps, "uniform": range(0, T, T // n) + 1, as a 0-based array.
MakeDdimTimesteps(T, n) ==
    LET c == T \div n
        len == (T + c - 1) \div c
    IN  [j \in 0..(len - 1) |-> j * c + 1]

\* make_ddim_sampling_parameters with eta = 0: (sigmas, alphas, alphas_prev).
MakeDdimSamplingParameters(alphacums, ddim_timesteps) ==
    LET idx == DOMAIN ddim_timesteps
    IN  [sigmas |-> [j \in idx |-> R(0)],
         alphas |-> [j \in idx |-> alphacums[ddim_timesteps[j]]],
         alphas_prev |-> [j \in idx |-> IF j = 0 THEN alphacums[0]
                                        ELSE alphacums[ddim_timesteps[j - 1]]]]

\* DDIMSchedule.__init__ / PLMSSchedule.__init__ (the same fields, eta = 0).
Schedule(k, num_steps) ==
    LET ts == MakeDdimTimesteps(NumTimesteps, num_steps)
        p == MakeDdimSamplingParameters(AlphasCumprod(k), ts)
    IN  [ddim_timesteps |-> ts,
         ddim_sigmas |-> p.sigmas,
         ddim_alphas |-> p.alphas,
         ddim_alphas_prev |-> p.alphas_prev,
         ddim_sqrt_one_minus_alphas |->
             [j \in DOMAIN ts |-> RSqrt(RSub(R(1), p.alphas[j]))]]

---------------------------------------------------------------------------
(* The step formula.                                                       *)

\* torch.nn.functional.dropout(noise, p) on one element: zeroed, or kept
\* and scaled by 1 / (1 - p).  keep is the element's Bernoulli draw.
Dropout(noise, p, keep) ==
    IF keep THEN RDiv(noise, RSub(R(1), p)) ELSE RMul(noise, R(0))

\* The formula with the noise term not scaled by sigma_t.
P_sample_ddim_formulaUnscaledNoise(noisy_latent, noise_pred, sqrt_one_minus_at, a_t, sigma_t, a_prev, noise_dropout, z, keep, temperature) ==
    LET predicted_latent ==
            RDiv(RSub(noisy_latent, RMul(sqrt_one_minus_at, noise_pred)),
                 RSqrt(a_t))
        dir_xt ==
            RMul(RSqrt(RSub(RSub(R(1), a_prev), RMul(sigma_t, sigma_t))),
                 noise_pred)
        noise == RMul(z, temperature)
    IN  [x_prev |-> RAdd(RAdd(RMul(RSqrt(a_prev), predicted_latent), dir_xt),
                         noise),
         predicted_latent |-> predicted_latent,
         dir_xt |-> dir_xt,
         noise |-> noise,
         draws |-> 1]

\* DDIMSampler._p_sample_ddim_formula.  z is the element noise_like draws;
\* draws counts the random draws made (noise_like, and dropout when on).
P_sample_ddim_formula(noisy_latent, noise_pred, sqrt_one_minus_at, a_t, sigma_t, a_prev, noise_dropout, z, keep, temperature) ==
    LET predicted_latent ==
            RDiv(RSub(noisy_latent, RMul(sqrt_one_minus_at, noise_pred)),
                 RSqrt(a_t))
        dir_xt ==
            RMul(RSqrt(RSub(RSub(R(1), a_prev), RMul(sigma_t, sigma_t))),
                 noise_pred)
        noise0 == RMul(RMul(sigma_t, z), temperature)
        noise == IF RLess(R(0), noise_dropout)
                 THEN Dropout(noise0, noise_dropout, keep) ELSE noise0
    IN  [x_prev |-> RAdd(RAdd(RMul(RSqrt(a_prev), predicted_latent), dir_xt),
                         noise),
         predicted_latent |-> predicted_latent,
         dir_xt |-> dir_xt,
         noise |-> noise,
         draws |-> IF RLess(R(0), noise_dropout) THEN 2 ELSE 1]

\* PLMSSampler.p_sample_plms.get_x_prev_and_pred_x0 with quantize_denoised
\* False (the quantizer of the first-stage model is outside the model).
Get_x_prev_and_pred_x0(noisy_latent, e_t, index, schedule, noise_dropout, z, keep, temperature) ==
    LET alpha_at_t == schedule.ddim_alphas[index]
        alpha_prev_at_t == schedule.ddim_alphas_prev[index]
        sigma_t == schedule.ddim_sigmas[index]
        sqrt_one_minus_at == schedule.ddim_sqrt_one_minus_alphas[index]
        pred_x0 ==
            RDiv(RSub(noisy_latent, RMul(sqrt_one_minus_at, e_t)),
                 RSqrt(alpha_at_t))
        dir_xt ==
            RMul(RSqrt(RSub(RSub(R(1), alpha_prev_at_t),
                            RMul(sigma_t, sigma_t))),
                 e_t)
        noise0 == RMul(RMul(sigma_t, z), temperature)
        noise == IF RLess(R(0), noise_dropout)
                 THEN Dropout(noise0, noise_dropout, keep) ELSE noise0
    IN  [x_prev |-> RAdd(RAdd(RMul(RSqrt(alpha_prev_at_t), pred_x0), dir_xt),
                         noise),
         pred_x0 |-> pred_x0,
         dir_xt |-> dir_xt,
         noise |-> noise,
         draws |-> IF RLess(R(0), noise_dropout) THEN 2 ELSE 1]

\* DDIMSampler.p_sample_ddim after its guidance_scale assertion: one
\* predictor call, one step formula.  calls lists the predictor calls made.
P_sample_ddim(pm, noisy_latent, time_encoding, index, schedule, noise_dropout, z, keep, temperature) ==
    LET noise_pred == GetNoisePrediction(pm, noisy_latent, time_encoding)
        f == P_sample_ddim_formula(noisy_latent, noise_pred,
                 schedule.ddim_sqrt_one_minus_alphas[index],
                 schedule.ddim_alphas[index],
                 schedule.ddim_sigmas[index],
                 schedule.ddim_alphas_prev[index],
                 noise_dropout, z, keep, temperature)
    IN  [x_prev |-> f.x_prev,
         pred_x0 |-> f.predicted_latent,
         calls |-> <<[x |-> noisy_latent, t |-> time_encoding]>>,
         draws |-> f.draws]

\* The corrector stopping at the 3rd order.
CorrectedPredictionThirdOrder(noise_pred, old_eps, e_t_next) ==
    LET n == Len(old_eps)
    IN  IF n = 0 THEN RDiv(RAdd(noise_pred, e_t_next), R(2))
        ELSE IF n = 1 THEN
            RDiv(RSub(RMul(R(3), noise_pred), old_eps[n]), R(2))
        ELSE
            RDiv(RAdd(RSub(RMul(R(23), noise_pred), RMul(R(16), old_eps[n])),
                      RMul(R(5), old_eps[n - 1])),
                 R(12))

\* The multistep corrector of p_sample_plms (the if / elif chain on
\* len(old_eps)); e_t_next is the lookahead prediction of the first step.
CorrectedPrediction(noise_pred, old_eps, e_t_next) ==
    LET n == Len(old_eps)
    IN  IF n = 0 THEN RDiv(RAdd(noise_pred, e_t_next), R(2))
        ELSE IF n = 1 THEN
            RDiv(RSub(RMul(R(3), noise_pred), old_eps[n]), R(2))
        ELSE IF n = 2 THEN
            RDiv(RAdd(RSub(RMul(R(23), noise_pred), RMul(R(16), old_eps[n])),
                      RMul(R(5), old_eps[n - 1])),
                 R(12))
        ELSE
            RDiv(RSub(RAdd(RSub(RMul(R(55), noise_pred),
                                RMul(R(59), old_eps[n])),
                           RMul(R(37), old_eps[n - 1])),
                      RMul(R(9), old_eps[n - 2])),
                 R(24))

\* The lookahead taken in the second step too.
IsFirstStepOrSecond(old_eps) == Len(old_eps) <= 1

\* len(old_eps) == 0: the step that takes the lookahead prediction.
IsFirstStep(old_eps) == Len(old_eps) = 0

\* PLMSSampler.p_sample_plms after its guidance_scale assertion.  z1 is the
\* draw of the trial step (first iteration only), z2 that of the final step.
P_sample_plms(pm, noisy_latent, time_encoding, index, schedule, old_eps, t_next, noise_dropout, z1, z2, keep, temperature) ==
    LET noise_pred == GetNoisePrediction(pm, noisy_latent, time_encoding)
        first == IsFirstStep(old_eps)
        trial == Get_x_prev_and_pred_x0(noisy_latent, noise_pred, index,
                     schedule, noise_dropout, z1, keep, temperature)
        e_t_next == IF first
                    THEN GetNoisePrediction(pm, trial.x_prev, t_next)
                    ELSE None
        e_t_prime == CorrectedPrediction(noise_pred, old_eps, e_t_next)
        f == Get_x_prev_and_pred_x0(noisy_latent, e_t_prime, index,
                 schedule, noise_dropout, z2, keep, temperature)
    IN  [x_prev |-> f.x_prev,
         pred_x0 |-> f.pred_x0,
         noise_pred |-> noise_pred,
         e_t_prime |-> e_t_prime,
         calls |-> IF first
                   THEN <<[x |-> noisy_latent, t |-> time_encoding],
                          [x |-> trial.x_prev, t |-> t_next]>>
                   ELSE <<[x |-> noisy_latent, t |-> time_encoding]>>,
         draws |-> IF first THEN trial.draws + f.draws ELSE f.draws]

---------------------------------------------------------------------------
(* The sampler loops.                                                      *)

\* len(old_eps) at which sample and decode pop the oldest entry.
HistoryLimit == 4

\* The iterations (i < 2) in which decode blends the raw orig_latent in.
HintIterations == 2

\* hint_strength = 0.8
HintStrength == Q(4, 5)

\* What torch.randn / noise_like / q_sample's own noise may draw.
RandnValues == {R(0), R(1)}

Min(a, b) == IF a < b THEN a ELSE b

VARIABLES
    pc,            \* "idle", "loop", "append", "evict", "done", "failed", "formula"
    args,          \* the arguments of the call in flight
    schedule,      \* the DDIMSchedule / PLMSSchedule of the call, None before
    total_steps,   \* timesteps.shape[0]
    i,             \* the loop counter of enumerate(time_range)
    initial_latent,\* the latent the loop starts from
    noisy_latent,  \* noisy_latent (x_dec in PLMSSampler.decode)
    old_eps,       \* the PLMS history
    noise_pred,    \* the raw prediction p_sample_plms returned, until appended
    e_t_prime,     \* the corrected prediction of the last p_sample_plms
    noise,         \* the noise PLMSSampler.decode draws before its loop
    nPred,         \* the number of predictor calls of the call
    raws,          \* per iteration, the predictor at its input latent and timestep
    last,          \* the last iteration: [i, ts, index, x_in, x_out, known, calls, q]
    qCalls,        \* the number of q_sample calls of the call
    draws,         \* the number of torch.randn / noise_like draws of the call
    traj,          \* first call, per iteration: [ts, index, x_in, x_out]
    result,        \* the latent returned
    error,         \* the exception raised
    round,         \* 1: the first call, 2: the repeated call
    prev,          \* the first call, once repeated: [args, traj, result]
    fin,           \* the inputs of a direct step-formula call
    fout           \* its outputs

vars == <<pc, args, schedule, total_steps, i, initial_latent, noisy_latent,
          old_eps,
          noise_pred, e_t_prime, noise, nPred, raws, last, qCalls, draws,
          traj, result, error, round, prev, fin, fout>>

\* The arguments a call is given.  batch_size is 1; decode is always given
\* its initial_latent and a schedule built from the same model.
Models == {NumTimesteps \div 4}

CallArgs ==
    [sampler : {"ddim", "plms"},
     op : {"sample", "decode"},
     model : Models,
     predictor : {0, 1},
     num_steps : 1..MaxSteps,
     t_start : {0},
     cond_batch : {1, 2},
     batch_size : {1},
     guidance_scale : {0, 1},
     mask : {None, R(0), R(1)},
     orig_latent : {None, R(1)},
     initial_latent : {None, R(2)}]

ValidArgs(a) ==
    /\ a.op = "decode" => a.initial_latent # None /\ a.cond_batch = a.batch_size

\* The slice walked without the flip.
TimeRangeUnflipped(sched, total) ==
    [j \in 0..(total - 1) |-> sched.ddim_timesteps[j]]

\* schedule.ddim_timesteps[:t_start] for t_start >= 0, then np.flip.
TimeRange(sched, total) ==
    [j \in 0..(total - 1) |-> sched.ddim_timesteps[total - 1 - j]]

\* The schedule index counted upwards.
IndexAscending(total, iter) == iter

\* index = total_steps - i - 1
Index(total, iter) == total - iter - 1

\* The composite with the two weights exchanged.
MaskCompositeSwapped(img, mask, x) ==
    RAdd(RMul(img, RSub(R(1), mask)), RMul(mask, x))

MaskComposite(img, mask, x) ==
    RAdd(RMul(img, mask), RMul(RSub(R(1), mask), x))

\* decode's xdec_orig_with_hints.
WithHints(xdec_orig, orig_latent, iter) ==
    IF iter < HintIterations
    THEN RAdd(RMul(xdec_orig, RSub(R(1), HintStrength)),
              RMul(orig_latent, HintStrength))
    ELSE xdec_orig

\* The latent after the "if mask is not None" block of an iteration whose
\* q_sample returned known.
Composited(a, iter, known, x) ==
    IF a.mask = None THEN x
    ELSE IF a.op = "sample" THEN MaskComposite(known, a.mask, x)
    ELSE MaskComposite(WithHints(known, a.orig_latent, iter), a.mask, x)

\* The eviction one entry late.
EvictedLate(eps) == IF Len(eps) > HistoryLimit THEN Tail(eps) ELSE eps

\* old_eps.pop(0) when len(old_eps) >= 4.
Evicted(eps) == IF Len(eps) >= HistoryLimit THEN Tail(eps) ELSE eps

\* The batch check left out.
BatchMismatchIgnored(a) == FALSE

\* positive_conditioning.shape[0] != batch_size
BatchMismatch(a) == a.cond_batch # a.batch_size

\* The slice one element short.
SliceLenShort(len, t_start) == Min(t_start - 1, len)

\* len(schedule.ddim_timesteps[:t_start]) for t_start >= 0.
SliceLen(len, t_start) == Min(t_start, len)

Fail(e) ==
    /\ pc' = "failed"
    /\ error' = e

\* sample / decode up to the loop: the batch check, the schedule, the
\* initial latent (z0 when drawn), the noise of PLMSSampler.decode (zn).
Begin(a, z0, zn) ==
    IF a.op = "sample" /\ BatchMismatch(a)
    THEN /\ Fail("ValueError")
         /\ args' = a
         /\ schedule' = None
         /\ total_steps' = 0
         /\ i' = 0
         /\ initial_latent' = None
         /\ noisy_latent' = None
         /\ old_eps' = <<>>
         /\ noise_pred' = None
         /\ e_t_prime' = None
         /\ noise' = None
         /\ nPred' = 0
         /\ raws' = <<>>
         /\ last' = None
         /\ qCalls' = 0
         /\ draws' = 0
         /\ traj' = <<>>
         /\ result' = None
    ELSE LET sched == Schedule(a.model, a.num_steps)
             len == Cardinality(DOMAIN sched.ddim_timesteps)
             plmsDecode == a.sampler = "plms" /\ a.op = "decode"
         IN  /\ pc' = "loop"
             /\ error' = None
             /\ args' = a
             /\ schedule' = sched
             /\ total_steps' = IF a.op = "sample" THEN len
                               ELSE SliceLen(len, a.t_start)
             /\ i' = 0
             /\ initial_latent' = IF a.initial_latent = None THEN z0
                                  ELSE a.initial_latent
             /\ noisy_latent' = initial_latent'
             /\ old_eps' = <<>>
             /\ noise_pred' = None
             /\ e_t_prime' = None
             /\ noise' = IF plmsDecode THEN zn ELSE None
             /\ nPred' = 0
             /\ raws' = <<>>
             /\ last' = None
             /\ qCalls' = 0
             /\ draws' = (IF a.initial_latent = None THEN 1 ELSE 0)
                         + (IF plmsDecode THEN 1 ELSE 0)
             /\ traj' = <<>>
             /\ result' = None

Init ==
    /\ pc = "idle"
    /\ args = None
    /\ schedule = None
    /\ total_steps = 0
    /\ i = 0
    /\ initial_latent = None
    /\ noisy_latent = None
    /\ old_eps = <<>>
    /\ noise_pred = None
    /\ e_t_prime = None
    /\ noise = None
    /\ nPred = 0
    /\ raws = <<>>
    /\ last = None
    /\ qCalls = 0
    /\ draws = 0
    /\ traj = <<>>
    /\ result = None
    /\ error = None
    /\ round = 1
    /\ prev = None
    /\ fin = None
    /\ fout = None

\* A first call of sample or decode.
Call ==
    /\ pc = "idle"
    /\ \E a \in CallArgs, t \in 0..(MaxSteps + 1), z0 \in RandnValues,
          zn \in RandnValues :
          /\ ValidArgs(a)
          /\ a.op = "decode" \/ t = 0
          /\ Begin([a EXCEPT !.t_start = t], z0, zn)
    /\ UNCHANGED <<round, prev, fin, fout>>

\* One iteration of DDIMSampler.sample / decode (zq: the noise q_sample
\* draws, z and keep: the draws of the step formula).
DdimIterate ==
    /\ pc = "loop"
    /\ args.sampler = "ddim"
    /\ i < total_steps
    /\ \E zq \in RandnValues, z \in RandnValues :
        LET index == Index(total_steps, i)
            step == TimeRange(schedule, total_steps)[i]
        IN
        \E known \in {IF args.mask # None /\ args.orig_latent # None
                      THEN QSample(args.model, args.orig_latent, step, zq)
                      ELSE None} :
        \E x_in \in {IF args.mask # None /\ args.orig_latent = None
                     THEN None
                     ELSE Composited(args, i, known, noisy_latent)} :
        \E s \in {IF x_in = None \/ args.guidance_scale < 1 THEN None
                  ELSE P_sample_ddim(args.predictor, x_in, step, index,
                                     schedule, R(0), z, TRUE, R(1))} :
            IF args.mask # None /\ args.orig_latent = None
            THEN /\ Fail("AssertionError")
                 /\ UNCHANGED <<noisy_latent, nPred, raws, last, qCalls, draws, traj>>
            ELSE IF args.guidance_scale < 1
            THEN /\ Fail("AssertionError")
                 /\ noisy_latent' = x_in
                 /\ qCalls' = qCalls + (IF args.mask # None THEN 1 ELSE 0)
                 /\ UNCHANGED <<nPred, raws, last, draws, traj>>
            ELSE /\ pc' = "loop"
                 /\ error' = error
                 /\ noisy_latent' = s.x_prev
                 /\ qCalls' = qCalls + (IF args.mask # None THEN 1 ELSE 0)
                 /\ nPred' = nPred + Len(s.calls)
                 /\ raws' = Append(raws, GetNoisePrediction(args.predictor,
                                                            x_in, step))
                 /\ last' = [i |-> i, ts |-> step, index |-> index,
                             x_in |-> x_in, x_out |-> s.x_prev,
                             known |-> known, calls |-> s.calls,
                             q |-> IF args.mask # None
                                   THEN <<[x_start |-> args.orig_latent,
                                           t |-> step]>>
                                   ELSE <<>>]
                 /\ draws' = draws + s.draws
                 /\ traj' = IF round = 1
                            THEN Append(traj, [ts |-> step, index |-> index,
                                               x_in |-> x_in,
                                               x_out |-> s.x_prev])
                            ELSE traj
    /\ i' = IF pc' = "loop" THEN i + 1 ELSE i
    /\ UNCHANGED <<args, schedule, total_steps, initial_latent, old_eps, noise_pred,
                   e_t_prime, noise, result, round, prev, fin, fout>>

\* One iteration of PLMSSampler.sample / decode up to the return of
\* p_sample_plms.
PlmsIterate ==
    /\ pc = "loop"
    /\ args.sampler = "plms"
    /\ i < total_steps
    /\ \E zq \in RandnValues, z1 \in RandnValues, z2 \in RandnValues :
        LET index == Index(total_steps, i)
            time_range == TimeRange(schedule, total_steps)
            step == time_range[i]
            ts_next == time_range[Min(i + 1, total_steps - 1)]
        IN
        \E known \in {IF args.mask # None /\ args.orig_latent # None
                      THEN QSample(args.model, args.orig_latent, step,
                                   IF args.op = "decode" THEN noise ELSE zq)
                      ELSE None} :
        \E x_in \in {IF args.mask # None /\ args.orig_latent = None
                     THEN None
                     ELSE Composited(args, i, known, noisy_latent)} :
        \E s \in {IF x_in = None \/ args.guidance_scale < 1 THEN None
                  ELSE P_sample_plms(args.predictor, x_in, step, index,
                                     schedule, old_eps, ts_next, R(0), z1, z2,
                                     TRUE, R(1))} :
            IF args.mask # None /\ args.orig_latent = None
            THEN /\ Fail("AssertionError")
                 /\ UNCHANGED <<noisy_latent, noise_pred, e_t_prime, nPred,
                                raws, last, qCalls, draws, traj>>
            ELSE IF args.guidance_scale < 1
            THEN /\ Fail("AssertionError")
                 /\ noisy_latent' = x_in
                 /\ qCalls' = qCalls + (IF args.mask # None THEN 1 ELSE 0)
                 /\ UNCHANGED <<noise_pred, e_t_prime, nPred, raws, last, draws,
                                traj>>
            ELSE /\ pc' = "append"
                 /\ error' = error
                 /\ noisy_latent' = s.x_prev
                 /\ noise_pred' = s.noise_pred
                 /\ e_t_prime' = s.e_t_prime
                 /\ qCalls' = qCalls + (IF args.mask # None THEN 1 ELSE 0)
                 /\ nPred' = nPred + Len(s.calls)
                 /\ raws' = Append(raws, GetNoisePrediction(args.predictor,
                                                            x_in, step))
                 /\ last' = [i |-> i, ts |-> step, index |-> index,
                             x_in |-> x_in, x_out |-> s.x_prev,
                             known |-> known, calls |-> s.calls,
                             q |-> IF args.mask # None
                                   THEN <<[x_start |-> args.orig_latent,
                                           t |-> step]>>
                                   ELSE <<>>]
                 /\ draws' = draws + s.draws
                 /\ traj' = IF round = 1
                            THEN Append(traj, [ts |-> step, index |-> index,
                                               x_in |-> x_in,
                                               x_out |-> s.x_prev])
                            ELSE traj
    /\ UNCHANGED <<args, schedule, total_steps, initial_latent, i, old_eps, noise, result,
                   round, prev, fin, fout>>

\* The corrected prediction appended instead of the raw one.
AppendEpsCorrected ==
    /\ pc = "append"
    /\ old_eps' = Append(old_eps, e_t_prime)
    /\ noise_pred' = None
    /\ pc' = "evict"
    /\ UNCHANGED <<args, schedule, total_steps, initial_latent, i,
                   noisy_latent, e_t_prime, noise, nPred, raws, last, qCalls,
                   draws, traj, result, error, round, prev, fin, fout>>

\* old_eps.append(noise_pred)
AppendEps ==
    /\ pc = "append"
    /\ old_eps' = Append(old_eps, noise_pred)
    /\ noise_pred' = None
    /\ pc' = "evict"
    /\ UNCHANGED <<args, schedule, total_steps, initial_latent, i, noisy_latent, e_t_prime,
                   noise, nPred, raws, last, qCalls, draws, traj, result, error,
                   round, prev, fin, fout>>

\* if len(old_eps) >= 4: old_eps.pop(0); then the next iteration.
EvictEps ==
    /\ pc = "evict"
    /\ old_eps' = Evicted(old_eps)
    /\ i' = i + 1
    /\ pc' = "loop"
    /\ UNCHANGED <<args, schedule, total_steps, initial_latent, noisy_latent, noise_pred,
                   e_t_prime, noise, nPred, raws, last, qCalls, draws, traj, result,
                   error, round, prev, fin, fout>>

\* return noisy_latent / return x_dec
Return ==
    /\ pc = "loop"
    /\ i = total_steps
    /\ pc' = "done"
    /\ result' = noisy_latent
    /\ UNCHANGED <<args, schedule, total_steps, initial_latent, i, noisy_latent, old_eps,
                   noise_pred, e_t_prime, noise, nPred, raws, last, qCalls, draws,
                   traj, error, round, prev, fin, fout>>

\* After a sample call returned: a second call on the same sampler with the
\* same model, conditioning, guidance scale, mask and initial latent, either
\* sample again or decode over the whole schedule.
Recall ==
    /\ pc = "done"
    /\ round = 1
    /\ args.op = "sample"
    /\ \E op2 \in {"sample", "decode"}, zn \in RandnValues :
          Begin([args EXCEPT !.op = op2,
                             !.t_start = total_steps,
                             !.initial_latent = initial_latent],
                initial_latent, zn)
    /\ round' = 2
    /\ prev' = [args |-> args, traj |-> traj, result |-> result]
    /\ UNCHANGED <<fin, fout>>

Next ==
    \/ Call
    \/ DdimIterate
    \/ PlmsIterate
    \/ AppendEps
    \/ EvictEps
    \/ Return
    \/ Recall

Spec == Init /\ [][Next]_vars

---------------------------------------------------------------------------
(* The step formula called on its own, on arguments of the caller's        *)
(* choice: _p_sample_ddim_formula is a static method, and p_sample_plms    *)
(* reads its coefficients from whatever schedule object it is handed.      *)

FormulaArgs ==
    [noisy_latent : {R(0), R(1)},
     noise_pred : {R(-1), R(2)},
     a_t : {Q(16, 25), Q(9, 25)},
     sigma_t : {R(0), Q(3, 5), R(1)},
     a_prev : {R(1), Q(16, 25)},
     noise_dropout : {R(0), Q(1, 2)},
     z : {R(-1), R(1)},
     keep : BOOLEAN,
     temperature : {R(1), R(2)}]

InitFormula ==
    /\ pc = "formula"
    /\ args = None
    /\ schedule = None
    /\ total_steps = 0
    /\ i = 0
    /\ initial_latent = None
    /\ noisy_latent = None
    /\ old_eps = <<>>
    /\ noise_pred = None
    /\ e_t_prime = None
    /\ noise = None
    /\ nPred = 0
    /\ raws = <<>>
    /\ last = None
    /\ qCalls = 0
    /\ draws = 0
    /\ traj = <<>>
    /\ result = None
    /\ error = None
    /\ round = 1
    /\ prev = None
    /\ fin = None
    /\ fout = None

\* DDIMSampler._p_sample_ddim_formula(...)
FormulaDdim ==
    /\ pc = "formula"
    /\ \E f \in FormulaArgs :
          /\ fin' = [fn |-> "_p_sample_ddim_formula", a |-> f]
          /\ fout' = P_sample_ddim_formula(f.noisy_latent, f.noise_pred,
                          RSqrt(RSub(R(1), f.a_t)), f.a_t, f.sigma_t,
                          f.a_prev, f.noise_dropout, f.z, f.keep,
                          f.temperature)
    /\ pc' = "formula_done"
    /\ UNCHANGED <<args, schedule, total_steps, i, initial_latent,
                   noisy_latent, old_eps, noise_pred, e_t_prime, noise,
                   nPred, raws, last, qCalls, draws, traj, result, error,
                   round, prev>>

\* get_x_prev_and_pred_x0(e_t, index) inside p_sample_plms, on a schedule
\* of one index holding the chosen coefficients.
FormulaPlms ==
    /\ pc = "formula"
    /\ \E f \in FormulaArgs :
          /\ fin' = [fn |-> "get_x_prev_and_pred_x0", a |-> f]
          /\ fout' = LET r == Get_x_prev_and_pred_x0(f.noisy_latent,
                                  f.noise_pred, 0,
                                  [ddim_alphas |-> [j \in {0} |-> f.a_t],
                                   ddim_alphas_prev |->
                                       [j \in {0} |-> f.a_prev],
                                   ddim_sigmas |-> [j \in {0} |-> f.sigma_t],
                                   ddim_sqrt_one_minus_alphas |->
                                       [j \in {0} |->
                                           RSqrt(RSub(R(1), f.a_t))]],
                                  f.noise_dropout, f.z, f.keep,
                                  f.temperature)
                      IN  [x_prev |-> r.x_prev,
                           predicted_latent |-> r.pred_x0,
                           dir_xt |-> r.dir_xt,
                           noise |-> r.noise,
                           draws |-> r.draws]
    /\ pc' = "formula_done"
    /\ UNCHANGED <<args, schedule, total_steps, i, initial_latent,
                   noisy_latent, old_eps, noise_pred, e_t_prime, noise,
                   nPred, raws, last, qCalls, draws, traj, result, error,
                   round, prev>>

NextFormula ==
    \/ FormulaDdim
    \/ FormulaPlms

SpecFormula == InitFormula /\ [][NextFormula]_vars

---------------------------------------------------------------------------
(* The claims.                                                             *)

InCall == pc \in {"loop", "append", "evict", "done", "failed"}

Running == pc \in {"loop", "append", "evict", "done"}

Plms == InCall /\ args.sampler = "plms"

Iterated == InCall /\ raws # <<>>

\* C1, as stated: the PLMS history holds at most 3 predictions at every
\* point of a call, the point between the append and the eviction included.
C1_HistoryAtMostThree == Len(old_eps) <= 3

\* C1, amended: the PLMS history holds at most 3 predictions whenever
\* p_sample_plms runs and after every iteration, and 4 at most between the
\* append and the eviction.
C1_HistoryBound ==
    /\ Len(old_eps) <= 4
    /\ pc # "evict" => Len(old_eps) <= 3

C1_Witness ==
    /\ pc = "evict"
    /\ i >= 4
    /\ Len(old_eps) = 4

\* The corrected prediction of iteration i from the raw predictions of the
\* call (raws[j + 1] is the raw prediction of iteration j) and, in the first
\* iteration, the lookahead prediction.
C2_Expected ==
    LET p(j) == raws[j + 1]
        lookahead == GetNoisePrediction(args.predictor, last.calls[2].x,
                                        last.calls[2].t)
    IN  IF i = 0 THEN RDiv(RAdd(p(0), lookahead), R(2))
        ELSE IF i = 1 THEN RDiv(RSub(RMul(R(3), p(1)), p(0)), R(2))
        ELSE IF i = 2 THEN
            RDiv(RAdd(RSub(RMul(R(23), p(2)), RMul(R(16), p(1))),
                      RMul(R(5), p(0))), R(12))
        ELSE
            RDiv(RSub(RAdd(RSub(RMul(R(55), p(i)), RMul(R(59), p(i - 1))),
                           RMul(R(37), p(i - 2))),
                      RMul(R(9), p(i - 3))), R(24))

\* C2: in PLMS iteration i the corrected prediction is (p0 + lookahead)/2
\* for i = 0, (3 p1 - p0)/2 for i = 1, (23 p2 - 16 p1 + 5 p0)/12 for i = 2
\* and (55 p_i - 59 p_{i-1} + 37 p_{i-2} - 9 p_{i-3})/24 for every i >= 3.
C2_CorrectedPrediction == pc = "append" => e_t_prime = C2_Expected

C2_Witness ==
    /\ pc = "append"
    /\ i = 4
    /\ raws[1] # raws[2]
    /\ e_t_prime = C2_Expected

\* C3: after every PLMS iteration the history holds the raw predictions
\* (the predictor at the iteration's input latent and timestep) of the
\* most recent iterations, oldest first: the last 3 of them once the
\* iteration has evicted, the last 4 between the append and the eviction.
C3_HistoryIsRaw ==
    LET n == Len(raws)
    IN  /\ (Plms /\ pc \in {"loop", "done"}) =>
               old_eps = SubSeq(raws, n - Min(n, 3) + 1, n)
        /\ (Plms /\ pc = "evict") =>
               old_eps = SubSeq(raws, n - Min(n, 4) + 1, n)

C3_Witness ==
    /\ Plms
    /\ pc = "loop"
    /\ i >= 4
    /\ old_eps = SubSeq(raws, i - 2, i)
    /\ e_t_prime # old_eps[3]

\* C4: a sample call whose positive_conditioning batch differs from
\* batch_size fails at once: no schedule, no q_sample call, no predictor
\* call, no random draw, no iteration and no latent returned.
C4_FailFast ==
    (InCall /\ args.op = "sample" /\ args.cond_batch # args.batch_size) =>
        /\ pc = "failed"
        /\ error = "ValueError"
        /\ schedule = None
        /\ qCalls = 0
        /\ nPred = 0
        /\ draws = 0
        /\ i = 0
        /\ initial_latent = None
        /\ result = None

C4_Witness ==
    /\ pc = "failed"
    /\ args.op = "sample"
    /\ args.cond_batch # args.batch_size
    /\ args.initial_latent = None
    /\ args.mask # None
    /\ error = "ValueError"

\* C5: a call given a mask without orig_latent never returns a latent and
\* never calls the predictor, whatever its number of steps.
C5_MaskNeedsOrigLatent ==
    (InCall /\ args.mask # None /\ args.orig_latent = None) =>
        /\ pc # "done"
        /\ nPred = 0

\* C6: when 1 - a_prev - sigma_t^2 < 0 the step formula clamps the radicand:
\* the direction term is 0 and the next latent is
\* sqrt(a_prev) * denoised_estimate + noise_term.
C6_RadicandClamped ==
    (/\ pc = "formula_done"
     /\ RLess(RSub(RSub(R(1), fin.a.a_prev),
                   RMul(fin.a.sigma_t, fin.a.sigma_t)), R(0))) =>
        /\ fout.dir_xt = R(0)
        /\ fout.x_prev = RAdd(RMul(RSqrt(fin.a.a_prev),
                                   fout.predicted_latent), fout.noise)

\* The last iteration of the repeated call is the same iteration of the
\* first call: timestep, schedule index, latent in and latent out.
SameAsFirstCall ==
    /\ last.i + 1 <= Len(prev.traj)
    /\ prev.traj[last.i + 1] = [ts |-> last.ts, index |-> last.index,
                                x_in |-> last.x_in, x_out |-> last.x_out]

\* C7, as stated: decode over the whole schedule repeats the trajectory and
\* the final latent of sample.
C7_DecodeRepeatsSample ==
    /\ (round = 2 /\ args.op = "decode" /\ Iterated) => SameAsFirstCall
    /\ (round = 2 /\ args.op = "decode" /\ pc = "done") =>
           result = prev.result

\* C7, amended: with no mask, or a mask that is all zeros, decode over the
\* whole schedule repeats the trajectory and the final latent of sample.
C7_DecodeRepeatsUnmaskedSample ==
    /\ (round = 2 /\ args.op = "decode" /\ args.mask \in {None, R(0)}
            /\ Iterated) => SameAsFirstCall
    /\ (round = 2 /\ args.op = "decode" /\ args.mask \in {None, R(0)}
            /\ pc = "done") => result = prev.result

C7_Witness ==
    /\ round = 2
    /\ args.op = "decode"
    /\ args.sampler = "plms"
    /\ args.mask = None
    /\ pc = "done"
    /\ total_steps >= 5
    /\ result = prev.result
    /\ result # initial_latent

\* C8, as stated: under an all-ones mask the latent of every decode
\* iteration is the known region q_sample(orig_latent, ts).
C8_CompositeIsKnownRegion ==
    (Iterated /\ args.op = "decode" /\ args.mask = R(1)) =>
        last.x_in = last.known

\* C8, amended: under an all-ones mask the latent every decode iteration
\* hands to the denoising step is 0.2 * known region + 0.8 * orig_latent in
\* the first two iterations and the known region afterwards, whatever the
\* incoming latent.
C8_CompositeIsHintedKnownRegion ==
    (Iterated /\ args.op = "decode" /\ args.mask = R(1)) =>
        last.x_in = IF last.i < 2
                    THEN RAdd(RMul(Q(1, 5), last.known),
                              RMul(Q(4, 5), args.orig_latent))
                    ELSE last.known

C8_Witness ==
    /\ Iterated
    /\ args.op = "decode"
    /\ args.mask = R(1)
    /\ round = 1
    /\ last.i >= 2
    /\ last.x_in = last.known
    /\ traj[last.i].x_out # last.x_in

\* C9, as stated: the step formulas of a sample call draw nothing at
\* random, and two sample calls with the same initial latent return the
\* same latent.
C9_NoDrawAndRepeatable ==
    /\ (Running /\ args.op = "sample") =>
           draws = IF args.initial_latent = None THEN 1 ELSE 0
    /\ (round = 2 /\ args.op = "sample" /\ pc = "done") =>
           result = prev.result

\* C9, amended: every step formula of a sample call draws one noise element
\* (one per predictor call), which sigma_t = 0 cancels; and two sample calls
\* with the same initial latent and no mask (or an all-zeros mask) return
\* the same latent.
C9_DrawnButRepeatable ==
    /\ (Running /\ args.op = "sample") =>
           draws = (IF args.initial_latent = None THEN 1 ELSE 0) + nPred
    /\ (round = 2 /\ args.op = "sample" /\ args.mask \in {None, R(0)}
            /\ pc = "done") => result = prev.result

C9_Witness ==
    /\ round = 2
    /\ args.op = "sample"
    /\ args.sampler = "ddim"
    /\ args.mask = None
    /\ pc = "done"
    /\ draws >= 3
    /\ result = prev.result
    /\ result # initial_latent

\* C10: an iteration calls the predictor once, at its input latent and
\* timestep; the first PLMS iteration calls it a second time, at the trial
\* latent and the next timestep (the current one in a walk of one step); a
\* call of n >= 1 iterations makes n calls in DDIM and n + 1 in PLMS.
C10_PredictorCalls ==
    /\ Iterated =>
        /\ Len(last.calls) = IF Plms /\ last.i = 0 THEN 2 ELSE 1
        /\ last.calls[1] = [x |-> last.x_in, t |-> last.ts]
    /\ (Iterated /\ Plms /\ last.i = 0) =>
        /\ last.calls[2].t = IF total_steps = 1 THEN last.ts
                             ELSE schedule.ddim_timesteps[total_steps - 2]
        /\ last.calls[2].x =
               Get_x_prev_and_pred_x0(last.x_in, raws[1], last.index,
                                      schedule, R(0), R(0), TRUE,
                                      R(1)).x_prev
    /\ InCall =>
           nPred = Len(raws) + (IF Plms /\ raws # <<>> THEN 1 ELSE 0)
    /\ (pc = "done" /\ total_steps >= 1) =>
           nPred = total_steps + (IF Plms THEN 1 ELSE 0)

C10_Witness ==
    /\ Plms
    /\ pc = "done"
    /\ total_steps = 1
    /\ nPred = 2
    /\ last.calls[2].t = last.ts

\* len(schedule.ddim_timesteps) of the call in flight.
ScheduleLen == Cardinality(DOMAIN schedule.ddim_timesteps)

\* No assertion of the call can fail: guidance_scale >= 1, and an
\* orig_latent wherever there is a mask.
AssertionsHold ==
    /\ args.guidance_scale >= 1
    /\ args.mask # None => args.orig_latent # None

\* C11 as stated: sample walks the schedule indices total_steps - 1 down to 0,
\* decode walks down from index t_start - 1, and the call returns the latent
\* produced at index 0.
C11_WalkFromTStart ==
    /\ Iterated =>
           last.index = (IF args.op = "sample" THEN ScheduleLen
                         ELSE args.t_start) - Len(raws)
    /\ pc = "done" =>
           /\ Len(raws) = IF args.op = "sample" THEN ScheduleLen
                          ELSE Min(args.t_start, ScheduleLen)
           /\ raws # <<>>
           /\ last.index = 0
           /\ result = last.x_out

\* The walk of a call, as far as it got: the k-th iteration is iteration
\* i = k - 1 of the loop and visits index n - k, where n is the length of
\* the schedule in sample and min(t_start, that length) in decode; a call
\* that returned made exactly n iterations and returns the latent produced
\* at index 0, or its initial latent when n = 0.
C11_Walk ==
    /\ Running =>
           /\ total_steps = IF args.op = "sample" THEN ScheduleLen
                            ELSE Min(args.t_start, ScheduleLen)
           /\ Len(raws) <= total_steps
    /\ Iterated =>
           /\ last.i = Len(raws) - 1
           /\ last.index = total_steps - Len(raws)
           /\ last.index \in 0..(ScheduleLen - 1)
    /\ (InCall /\ round = 1) =>
           \A k \in 1..Len(traj) : traj[k].index = total_steps - k
    /\ pc = "done" =>
           /\ Len(raws) = total_steps
           /\ total_steps = 0 => result = initial_latent
           /\ total_steps > 0 => last.index = 0 /\ result = last.x_out

\* What is left of the loop: three statements an iteration (the step, the
\* append, the eviction) and the return.
Remaining ==
    3 * (total_steps - i)
    + (IF pc = "loop" THEN 3 ELSE IF pc = "append" THEN 2
       ELSE IF pc = "evict" THEN 1 ELSE 0)

\* A call in its loop always has a next statement to execute: an iteration
\* while i < total_steps (DdimIterate and PlmsIterate have no other guard),
\* the return when i = total_steps, the append and the eviction after a
\* PLMS step.
C11_NeverStuck ==
    /\ pc = "loop" =>
           /\ i \in 0..total_steps
           /\ args.sampler \in {"ddim", "plms"}
    /\ (pc = "loop" /\ i = total_steps) => ENABLED Return
    /\ pc = "append" => ENABLED AppendEps
    /\ pc = "evict" => ENABLED EvictEps

\* Every statement of a call in its loop either raises or leaves less of
\* the loop to do.
C11_Progress ==
    pc \in {"loop", "append", "evict"} =>
        \/ pc' = "failed"
        \/ /\ pc' \in {"loop", "append", "evict", "done"}
           /\ total_steps' = total_steps
           /\ Remaining' >= 0
           /\ Remaining' < Remaining

\* A statement of a call whose assertions hold does not raise.
C11_NoRaise ==
    (pc \in {"loop", "append", "evict"} /\ AssertionsHold) => pc' # "failed"

\* C11 (amended): a call of sample or decode that fails no assertion visits
\* the schedule indices n - 1, n - 2, ..., 0 in that order, each exactly
\* once, and returns after exactly n iterations, where n is the length of the
\* schedule in sample and min(t_start, that length) in decode; it returns the
\* latent produced at index 0, or the initial latent unchanged when n = 0.
\* Termination is the loop never being stuck and every statement leaving
\* strictly less of it.
C11_WalkDownToZero ==
    /\ [](C11_Walk /\ C11_NeverStuck)
    /\ [][C11_Progress /\ C11_NoRaise]_vars

C11_Witness ==
    /\ pc = "done"
    /\ args.op = "decode"
    /\ args.t_start > ScheduleLen
    /\ total_steps = ScheduleLen
    /\ Len(raws) >= 3
    /\ last.index = 0
    /\ result = last.x_out
    /\ result # initial_latent

\* schedule.ddim_timesteps[index] of the last iteration.
IndexTimestep == schedule.ddim_timesteps[last.index]

\* The latent the step formula gives from the iteration's input latent with
\* the coefficients of its schedule index (e_t: the prediction it steps by).
SteppedAtIndex(e_t) ==
    Get_x_prev_and_pred_x0(last.x_in, e_t, last.index, schedule, R(0), R(0),
                           TRUE, R(1)).x_prev

\* C12 as stated: every timestep an iteration passes to the predictor and to
\* q_sample is schedule.ddim_timesteps[index], for the index of its step
\* formula.
C12_EveryCallAtIndexTimestep ==
    Iterated =>
        /\ \A k \in 1..Len(last.calls) : last.calls[k].t = IndexTimestep
        /\ \A k \in 1..Len(last.q) : last.q[k].t = IndexTimestep

\* C12 (amended): in every iteration of sample and decode (DDIM and PLMS,
\* any t_start >= 0) the timestep of the iteration, passed to q_sample and to
\* the predictor call on the iteration's input latent, is
\* schedule.ddim_timesteps[index] for the index whose coefficients the step
\* formula uses, so the alpha used is the model's alphas_cumprod at that
\* timestep; the lookahead predictor call of the first PLMS iteration takes
\* the timestep of the next iteration, schedule.ddim_timesteps[index - 1]
\* (the same timestep when index = 0).
C12_TimestepMatchesIndex ==
    Iterated =>
        /\ last.ts = IndexTimestep
        /\ last.calls[1].t = IndexTimestep
        /\ \A k \in 1..Len(last.q) : last.q[k].t = IndexTimestep
        /\ Len(last.q) = IF args.mask = None THEN 0 ELSE 1
        /\ Len(last.calls) = 2 =>
               last.calls[2].t =
                   schedule.ddim_timesteps[IF last.index = 0 THEN 0
                                           ELSE last.index - 1]
        /\ schedule.ddim_alphas[last.index]
               = AlphasCumprod(args.model)[last.ts]
        /\ schedule.ddim_sqrt_one_minus_alphas[last.index]
               = RSqrt(RSub(R(1), AlphasCumprod(args.model)[last.ts]))
        /\ last.x_out = SteppedAtIndex(IF Plms THEN e_t_prime
                                       ELSE raws[Len(raws)])

C12_Witness ==
    /\ Plms
    /\ args.op = "decode"
    /\ args.mask # None
    /\ raws # <<>>
    /\ last.i = 0
    /\ total_steps >= 2
    /\ total_steps < ScheduleLen
    /\ Len(last.q) = 1
    /\ Len(last.calls) = 2
    /\ last.calls[2].t # last.ts
    /\ last.calls[1].t = IndexTimestep

====
